---- MODULE Spec2Model ----
(***************************************************************************)
(* The cells of python_for_mri.ipynb: the coordinate mapping, the array    *)
(* exercises, and the run of all code cells in order.                      *)
(*                                                                         *)
(* The notebook binds the affine of the loaded image to the name A         *)
(* (A = img.affine) and maps a voxel index to world space with             *)
(*     xyz1 = A @ np.array([69, 119, 109, 1])                              *)
(* The model keeps the kernel's names img, A and xyz1 and the exception    *)
(* the last cell raised.  The matrix and the coordinate scalars are drawn  *)
(* from bounded families, so that the expression is exercised as a         *)
(* function of its two operands; numbers are integers (exact arithmetic).  *)
(* The notebook has no inverse mapping (world to voxel) and no division by *)
(* the homogeneous term; neither is modelled.                              *)
(*                                                                         *)
(* Four specifications share the variables: Spec (the affine cells),       *)
(* SpecThreads (concurrent evaluations of the product), SpecArrays (the    *)
(* indexing and histogram exercises) and SpecRun (the thirty code cells    *)
(* run top to bottom, with their raises-exception tags).                   *)
(***************************************************************************)
EXTENDS Integers, Sequences, FiniteSets, TLC

VARIABLES img, A, ijk, xyz1, err,     \* the kernel names of the affine cells
          f_img, threads,               \* concurrent callers of the product
          img_data, f_img_data,         \* the voxel arrays of the two images
          second_slice, f_img_data_odd, \* what the indexing exercises bind
          histogram,                    \* what the histogram exercise computes
          pc, outputs, halted,          \* a run of the code cells in order
          student, data_present,        \* the exercise cells as filled in; the files
          xyz_middle, graded            \* the third graded name; the graders called

(* the names of the affine cells *)
mapperVars == <<img, A, ijk, xyz1, err>>

(* the second image and the callers that evaluate the product concurrently *)
threadVars == <<f_img, threads>>

(* the voxel arrays and the names the array exercises bind *)
arrayVars == <<img_data, f_img_data, second_slice, f_img_data_odd, histogram>>

(* the run of the notebook's code cells from top to bottom *)
runVars == <<pc, outputs, halted, student, data_present, xyz_middle, graded>>

vars == <<mapperVars, threadVars, arrayVars, runVars>>

(* ---------------- bounds of the input families ---------------- *)

MaxEntry == 1
MaxCoord == 1

Entry == -1 .. MaxEntry
Coord == -1 .. MaxCoord

(* a name the kernel has not bound yet *)
Unbound == <<>>

(* the voxel index of the sagittal slice the notebook maps *)
SliceVoxel == <<69, 119, 109>>

(* translations of the matrix family: none, and the one of the 1 mm
   anatomical grid whose centre lies at the isocenter *)
Translations == { <<0, 0, 0>>, <<120, -120, -110>> }

(* 4x4 matrices: scales d1 and d2, shear s, translation t and last row
   <<p, 0, 0, w>> *)
Matrix4(d1, d2, s, t, p, w) ==
    << <<d1, s,  0, t[1]>>,
       <<0,  d2, 0, t[2]>>,
       <<0,  0,  1, t[3]>>,
       <<p,  0,  0, w>> >>

Matrices4x4 ==
    { Matrix4(d1, d2, s, t, p, w) :
        d1 \in Entry, d2 \in Entry, s \in 0 .. 1, t \in Translations,
        p \in Entry, w \in Entry }

(* numpy views of a matrix with fewer rows or columns *)
Rows3(M)  == SubSeq(M, 1, 3)
Block3(M) == [r \in 1 .. 3 |-> SubSeq(M[r], 1, 3)]

Matrices == Matrices4x4 \cup { Rows3(M) : M \in Matrices4x4 }
                        \cup { Block3(M) : M \in Matrices4x4 }

(* coordinate scalars handed to np.array before the trailing 1: three of
   them, or two, or four *)
CoordTuples ==
    [1 .. 3 -> Coord] \cup [1 .. 2 -> Coord]
      \cup { Append(c, 0) : c \in [1 .. 3 -> Coord] }
      \cup { SliceVoxel }

(* ---------------- numpy's matrix-vector product ---------------- *)

NRows(M) == Len(M)
NCols(M) == Len(M[1])

RECURSIVE DotFrom(_, _, _)
DotFrom(row, v, n) ==
    IF n > Len(row) THEN 0 ELSE row[n] * v[n] + DotFrom(row, v, n + 1)

DotSkipFirst(row, v) == DotFrom(row, v, 2)

(* sum over the core dimension of row[n] * v[n] *)
Dot(row, v) == DotFrom(row, v, 1)

(* a product that divides every component by the homogeneous term, the
   last component of a four-row result *)
MatMulHomogenized(M, v) ==
    IF NCols(M) # Len(v)
    THEN [tag |-> "ValueError", value |-> <<>>]
    ELSE IF NRows(M) = 4 /\ Dot(M[4], v) # 0
         THEN [tag |-> "ok",
               value |-> [r \in 1 .. 4 |-> Dot(M[r], v) \div Dot(M[4], v)]]
         ELSE [tag |-> "ok", value |-> [r \in 1 .. NRows(M) |-> Dot(M[r], v)]]

(* a product that pairs the operands as far as both reach instead of
   comparing their shapes *)
MatMulUnchecked(M, v) ==
    [tag |-> "ok",
     value |-> [r \in 1 .. NRows(M) |->
                  Dot(SubSeq(M[r], 1, IF Len(v) < NCols(M) THEN Len(v) ELSE NCols(M)), v)]]

(* a product that refuses a vanishing homogeneous term *)
MatMulChecked(M, v) ==
    IF NCols(M) # Len(v)
    THEN [tag |-> "ValueError", value |-> <<>>]
    ELSE IF NRows(M) = 4 /\ Dot(M[4], v) = 0
         THEN [tag |-> "ZeroDivisionError", value |-> <<>>]
         ELSE [tag |-> "ok", value |-> [r \in 1 .. NRows(M) |-> Dot(M[r], v)]]

(* a product that accepts only a matrix whose last row is (0, 0, 0, 1) *)
MatMulAffineOnly(M, v) ==
    IF NCols(M) # Len(v) \/ (NRows(M) = 4 /\ M[4] # <<0, 0, 0, 1>>)
    THEN [tag |-> "ValueError", value |-> <<>>]
    ELSE [tag |-> "ok", value |-> [r \in 1 .. NRows(M) |-> Dot(M[r], v)]]

(* M @ v for a 2-D M and a 1-D v: the core dimensions must agree, the
   result has one component per row of M *)
MatMul(M, v) ==
    IF NCols(M) # Len(v)
    THEN [tag |-> "ValueError", value |-> <<>>]
    ELSE [tag |-> "ok", value |-> [r \in 1 .. NRows(M) |-> Dot(M[r], v)]]

(* a coordinate vector closed with 0 instead of 1 *)
HomogeneousZero(c) == Append(c, 0)

(* np.array([i, j, k, 1]): the coordinate scalars followed by a single 1 *)
Homogeneous(c) == Append(c, 1)

(* x, y, z, 1 = A [i j k 1]: the world coordinate is the first three
   components of the product *)
xyz(r) == SubSeq(r, 1, 3)

(* ---------------- the kernel ---------------- *)

(* the affine of the functional image, on an integer grid *)
FuncAffine ==
    << <<-3, 0, 0, 108>>, <<0, 3, 0, -108>>, <<0, 0, 3, -63>>, <<0, 0, 0, 1>> >>

(* no caller besides the kernel itself *)
NoThreads ==
    /\ f_img = [affine |-> FuncAffine]
    /\ threads = <<>>

(* the voxel arrays are not loaded *)
NoArrays ==
    /\ img_data = Unbound
    /\ f_img_data = Unbound
    /\ second_slice = Unbound
    /\ f_img_data_odd = Unbound
    /\ histogram = Unbound

(* no run of the whole notebook is under way *)
NoRun ==
    /\ pc = 0
    /\ outputs = <<>>
    /\ halted = FALSE
    /\ student = <<>>
    /\ data_present = TRUE
    /\ xyz_middle = Unbound
    /\ graded = {}

Init ==
    /\ img \in { [affine |-> M] : M \in Matrices }
    /\ A = Unbound
    /\ ijk \in CoordTuples
    /\ xyz1 = Unbound
    /\ err = "none"
    /\ NoThreads
    /\ NoArrays
    /\ NoRun

(* A = img.affine : the name A refers to the image's own array *)
BindAffine ==
    /\ A' = img.affine
    /\ err' = "none"
    /\ UNCHANGED <<img, ijk, xyz1>>
    /\ UNCHANGED <<threadVars, arrayVars, runVars>>

(* the same cell with the product also written into the first row of the
   array A refers to, which is the image's own affine *)
RunMatmulInPlace ==
    /\ IF A = Unbound
       THEN /\ err' = "NameError"
            /\ xyz1' = xyz1
            /\ UNCHANGED <<img, A>>
       ELSE LET r == MatMul(A, Homogeneous(ijk)) IN
              /\ err' = (IF r.tag = "ok" THEN "none" ELSE r.tag)
              /\ xyz1' = (IF r.tag = "ok" THEN r.value ELSE xyz1)
              /\ A' = (IF r.tag = "ok"
                       THEN [A EXCEPT ![1] = [n \in 1 .. NCols(A) |-> r.value[1]]]
                       ELSE A)
              /\ img' = [img EXCEPT !.affine = A']
    /\ UNCHANGED ijk
    /\ UNCHANGED <<threadVars, arrayVars, runVars>>

(* xyz1 = A @ np.array([i, j, k, 1]) : a NameError while A is unbound, a
   ValueError when the shapes disagree (xyz1 keeps what it was bound to),
   the product otherwise *)
RunMatmul ==
    /\ IF A = Unbound
       THEN /\ err' = "NameError"
            /\ xyz1' = xyz1
       ELSE LET r == MatMul(A, Homogeneous(ijk)) IN
              /\ err' = (IF r.tag = "ok" THEN "none" ELSE r.tag)
              /\ xyz1' = (IF r.tag = "ok" THEN r.value ELSE xyz1)
    /\ UNCHANGED <<img, A, ijk>>
    /\ UNCHANGED <<threadVars, arrayVars, runVars>>

Next == BindAffine \/ RunMatmul

Spec == Init /\ [][Next]_vars

(* ---------------- numpy indexing of the voxel arrays ---------------- *)

(* An array is a nested sequence, outermost axis first; the Python index n
   is position n + 1 of a sequence. *)

MaxDim == 2
MaxT == 4

(* keys of one axis: an integer, start:stop:step, start::step, and ":" *)
At(n) == [kind |-> "int", n |-> n]
Range(start, stop, step) == [kind |-> "range", start |-> start, stop |-> stop, step |-> step]
From(start, step) == [kind |-> "from", start |-> start, step |-> step]
All == From(0, 1)

(* where a slice ends on an axis of length n: a stop past the end is
   clipped, a missing stop is the end *)
SliceStop(k, n) ==
    IF k.kind = "from" THEN n ELSE IF k.stop > n THEN n ELSE k.stop

(* a slice that leaves out the last index it should select *)
SliceLenShort(k, n) ==
    IF k.start >= SliceStop(k, n)
    THEN 0
    ELSE (SliceStop(k, n) - k.start - 1) \div k.step

(* number of indices start, start + step, ... below the stop *)
SliceLen(k, n) ==
    IF k.start >= SliceStop(k, n)
    THEN 0
    ELSE (SliceStop(k, n) - k.start + k.step - 1) \div k.step

RECURSIVE IndexOneBased(_, _)
IndexOneBased(a, key) ==
    IF key = <<>>
    THEN a
    ELSE LET k == Head(key) IN
         IF k.kind = "int"
         THEN IndexOneBased(a[IF k.n = 0 THEN 1 ELSE k.n], Tail(key))
         ELSE [m \in 1 .. SliceLen(k, Len(a)) |->
                 IndexOneBased(a[k.start + (m - 1) * k.step + 1], Tail(key))]

(* a[key]: an integer key selects one entry and drops the axis, a slice
   key keeps the axis with the selected entries *)
RECURSIVE Index(_, _)
Index(a, key) ==
    IF key = <<>>
    THEN a
    ELSE LET k == Head(key) IN
         IF k.kind = "int"
         THEN Index(a[k.n + 1], Tail(key))
         ELSE [m \in 1 .. SliceLen(k, Len(a)) |->
                 Index(a[k.start + (m - 1) * k.step + 1], Tail(key))]

(* a.shape of an array with ndim axes *)
RECURSIVE Shape(_, _)
Shape(a, ndim) ==
    IF ndim = 0
    THEN <<>>
    ELSE <<Len(a)>> \o (IF Len(a) = 0 THEN [d \in 1 .. ndim - 1 |-> 0]
                                      ELSE Shape(a[1], ndim - 1))

(* the shape of a[key], from the shape of a alone *)
RECURSIVE IndexShape(_, _)
IndexShape(shape, key) ==
    IF key = <<>>
    THEN shape
    ELSE IF Head(key).kind = "int"
         THEN IndexShape(Tail(shape), Tail(key))
         ELSE <<SliceLen(Head(key), Head(shape))>> \o IndexShape(Tail(shape), Tail(key))

(* a[key] with numpy's bounds check of the integer keys *)
IndexOutcome(a, ndim, key) ==
    IF \E d \in 1 .. Len(key) :
           key[d].kind = "int" /\ key[d].n >= Shape(a, ndim)[d]
    THEN [tag |-> "IndexError", value |-> <<>>]
    ELSE [tag |-> "ok", value |-> Index(a, key)]

(* the array in C order, as boolean indexing lists it *)
RECURSIVE Flatten(_, _)
Flatten(a, ndim) ==
    IF ndim <= 1 \/ Len(a) = 0
    THEN a
    ELSE Flatten(Head(a), ndim - 1) \o
           (IF Len(a) = 1 THEN <<>> ELSE Flatten(Tail(a), ndim))

RECURSIVE Sum(_)
Sum(x) == IF x = <<>> THEN 0 ELSE Head(x) + Sum(Tail(x))

(* ---------------- the voxel arrays ---------------- *)

(* signal patterns: a base level, a drift over time, a code of the voxel's
   position, and empty space (zeros) in the first sagittal plane *)
Patterns ==
    [base : 0 .. 1, slope : -1 .. 1, code : 0 .. 1, mask : BOOLEAN]

Voxel(par, shape, i, j, k, t) ==
    IF par.mask /\ i = 0
    THEN 0
    ELSE par.base + par.slope * t
           + par.code * (1 + i + shape[1] * (j + shape[2] * k))

(* get_fdata() of a 3-D image and of a 4-D image *)
Volume3(par, shape) ==
    [i \in 1 .. shape[1] |-> [j \in 1 .. shape[2] |-> [k \in 1 .. shape[3] |->
        Voxel(par, shape, i - 1, j - 1, k - 1, 0)]]]

Volume4(par, shape) ==
    [i \in 1 .. shape[1] |-> [j \in 1 .. shape[2] |-> [k \in 1 .. shape[3] |->
        [t \in 1 .. shape[4] |-> Voxel(par, shape, i - 1, j - 1, k - 1, t - 1)]]]]

Volumes3 ==
    { Volume3(par, shape) :
        par \in { q \in Patterns : q.slope = 0 }, shape \in [1 .. 3 -> 1 .. MaxDim] }

Volumes4 ==
    { Volume4(par, <<x, y, z, t>>) :
        par \in Patterns, x \in 1 .. MaxDim, y \in 1 .. MaxDim,
        z \in 1 .. MaxDim, t \in 1 .. MaxT }

DefaultPattern == [base |-> 1, slope |-> 1, code |-> 1, mask |-> TRUE]

(* ---------------- the array exercises ---------------- *)

NBins == 50

SeqMin(x) ==
    CHOOSE m \in { x[n] : n \in 1 .. Len(x) } : \A n \in 1 .. Len(x) : m <= x[n]

SeqMax(x) ==
    CHOOSE m \in { x[n] : n \in 1 .. Len(x) } : \A n \in 1 .. Len(x) : m >= x[n]

(* bins that are all open on the right: the largest value falls past the
   last bin *)
BinOfOpen(v, lo, hi, bins) ==
    IF lo = hi
    THEN bins \div 2 + 1
    ELSE ((v - lo) * bins) \div (hi - lo) + 1

(* the bin, counted from 1, of the value v among bins equal-width bins
   between lo and hi: the last bin is closed on the right, and a range of
   width 0 is widened by one half on both sides *)
BinOf(v, lo, hi, bins) ==
    IF lo = hi
    THEN bins \div 2 + 1
    ELSE IF v = hi THEN bins ELSE ((v - lo) * bins) \div (hi - lo) + 1

(* counts of np.histogram(x, bins) / plt.hist(x, bins): all zero for an
   empty x *)
HistogramCounts(x, bins) ==
    [b \in 1 .. bins |->
        IF x = <<>>
        THEN 0
        ELSE Cardinality({ n \in 1 .. Len(x) :
                             BinOf(x[n], SeqMin(x), SeqMax(x), bins) = b })]

IsNonZero(v) == v # 0

(* the sum over time of every voxel's time series; the average across time
   is this sum over the number of timepoints *)
TimeSums(a) ==
    [i \in 1 .. Len(a) |-> [j \in 1 .. Len(a[1]) |-> [k \in 1 .. Len(a[1][1]) |->
        Sum(Index(a, <<At(i - 1), At(j - 1), At(k - 1)>>))]]]

InitArrays ==
    /\ \/ img_data \in Volumes3 /\ f_img_data = Volume4(DefaultPattern, <<2, 1, 1, 2>>)
       \/ img_data = Volume3(DefaultPattern, <<1, 1, 2>>) /\ f_img_data \in Volumes4
    /\ second_slice = Unbound
    /\ f_img_data_odd = Unbound
    /\ histogram = Unbound
    /\ img = [affine |-> FuncAffine]
    /\ A = Unbound
    /\ ijk = <<>>
    /\ xyz1 = Unbound
    /\ err = "none"
    /\ NoThreads
    /\ NoRun

(* img_data[:, :, 1] *)
SecondSliceOf(a) == IndexOutcome(a, 3, <<All, All, At(1)>>)

(* f_img_data[:, :, :, 1::2] *)
OddTimepointsOf(a) == Index(a, <<All, All, All, From(1, 2)>>)

(* average across time, keep the averages that are not zero (boolean
   indexing), count them in 50 bins.  The averages are kept as their sums
   over time and the common divisor den. *)
HistogramOf(a) ==
    LET sums == TimeSums(a)
        kept == SelectSeq(Flatten(sums, 3), IsNonZero)
    IN  [mean    |-> sums,
         den     |-> Shape(a, 4)[4],
         nonzero |-> kept,
         counts  |-> HistogramCounts(kept, NBins)]

(* second_slice = img_data[:, :, 1] : an IndexError when the last axis has
   no second entry *)
SecondSliceCell ==
    /\ LET r == SecondSliceOf(img_data) IN
         /\ err' = (IF r.tag = "ok" THEN "none" ELSE r.tag)
         /\ second_slice' = (IF r.tag = "ok" THEN r.value ELSE second_slice)
    /\ UNCHANGED <<img_data, f_img_data, f_img_data_odd, histogram>>
    /\ UNCHANGED <<img, A, ijk, xyz1, threadVars, runVars>>

(* f_img_data_odd = f_img_data[:, :, :, 1::2] *)
OddTimepointsCell ==
    /\ f_img_data_odd' = OddTimepointsOf(f_img_data)
    /\ err' = "none"
    /\ UNCHANGED <<img_data, f_img_data, second_slice, histogram>>
    /\ UNCHANGED <<img, A, ijk, xyz1, threadVars, runVars>>

(* the histogram exercise on f_img_data *)
HistogramCell ==
    /\ histogram' = HistogramOf(f_img_data)
    /\ err' = "none"
    /\ UNCHANGED <<img_data, f_img_data, second_slice, f_img_data_odd>>
    /\ UNCHANGED <<img, A, ijk, xyz1, threadVars, runVars>>

NextArrays == SecondSliceCell \/ OddTimepointsCell \/ HistogramCell

SpecArrays == InitArrays /\ [][NextArrays]_vars

(* ---------------- concurrent callers of the product ---------------- *)

NThreads == 2

Threads == 1 .. NThreads

(* the affines the callers work on: the anatomical image's, drawn from a
   family with and without a projective last row *)
ThreadMatrices ==
    { Matrix4(d1, 1, s, <<120, -120, -110>>, p, 1) :
        d1 \in Entry, s \in 0 .. 1, p \in 0 .. 1 }

ThreadCoords == { <<i, 0 - i, i>> : i \in Coord }

(* the array an invocation was handed: img.affine or f_img.affine *)
AffineOf(name) == IF name = "img" THEN img.affine ELSE f_img.affine

(* an invocation that has read its operands and computed no row yet *)
Invocation(name, c) ==
    [image |-> name, v |-> c, row |-> 0, value |-> <<>>, state |-> "running"]

InitThreads ==
    /\ img \in { [affine |-> M] : M \in ThreadMatrices }
    /\ f_img = [affine |-> FuncAffine]
    /\ threads \in [Threads -> { Invocation(name, c) :
                                   name \in {"img", "f_img"}, c \in ThreadCoords }]
    /\ A = Unbound
    /\ ijk = <<>>
    /\ xyz1 = Unbound
    /\ err = "none"
    /\ NoArrays
    /\ NoRun

(* the same step multiplying the row by the vector in place (A[r] *= v)
   before summing it *)
ThreadStepInPlace(t) ==
    LET th == threads[t]
        M  == AffineOf(th.image)
        v  == Homogeneous(th.v)
    IN  /\ th.state = "running"
        /\ IF NCols(M) # Len(v)
           THEN /\ threads' = [threads EXCEPT ![t].state = "ValueError"]
                /\ UNCHANGED <<img, f_img>>
           ELSE /\ threads' =
                     [threads EXCEPT
                        ![t].value = Append(th.value, Dot(M[th.row + 1], v)),
                        ![t].row   = th.row + 1,
                        ![t].state = IF th.row + 1 = NRows(M) THEN "done" ELSE "running"]
                /\ LET scaled == [n \in 1 .. NCols(M) |-> M[th.row + 1][n] * v[n]]
                   IN  IF th.image = "img"
                       THEN /\ img' = [img EXCEPT !.affine[th.row + 1] = scaled]
                            /\ UNCHANGED f_img
                       ELSE /\ f_img' = [f_img EXCEPT !.affine[th.row + 1] = scaled]
                            /\ UNCHANGED img
        /\ UNCHANGED <<A, ijk, xyz1, err>>
        /\ UNCHANGED <<arrayVars, runVars>>

(* one step of one invocation of A @ np.array([i, j, k, 1]): the shapes are
   compared before the first row; then one component of the result, the sum
   over one row of the shared array, is put into the caller's own new array *)
ThreadStep(t) ==
    LET th == threads[t]
        M  == AffineOf(th.image)
        v  == Homogeneous(th.v)
    IN  /\ th.state = "running"
        /\ IF NCols(M) # Len(v)
           THEN threads' = [threads EXCEPT ![t].state = "ValueError"]
           ELSE threads' =
                  [threads EXCEPT
                     ![t].value = Append(th.value, Dot(M[th.row + 1], v)),
                     ![t].row   = th.row + 1,
                     ![t].state = IF th.row + 1 = NRows(M) THEN "done" ELSE "running"]
        /\ UNCHANGED <<img, f_img, A, ijk, xyz1, err>>
        /\ UNCHANGED <<arrayVars, runVars>>

NextThreads == \E t \in Threads : ThreadStep(t)

SpecThreads == InitThreads /\ [][NextThreads]_vars

(* ---------------- the code cells run in order ---------------- *)

(* a code cell: what it does, and whether it carries the raises-exception
   tag *)
Cell(kind, raises) == [kind |-> kind, raises |-> raises]

(* a cell that only imports, prints or plots *)
Show == Cell("show", FALSE)

(* the thirty code cells of the notebook, top to bottom *)
Notebook ==
    << Show, Cell("load_img", FALSE), Show, Show, Show, Show, Show,
       Cell("load_f_img", FALSE), Cell("img_data", FALSE), Show, Show, Show, Show,
       Cell("todo_second_slice", TRUE), Cell("test_second_slice", TRUE),
       Cell("f_img_data", FALSE), Show, Show, Show, Show, Show,
       Cell("todo_odd", TRUE), Cell("test_odd", TRUE),
       Show, Cell("affine", FALSE), Show, Cell("matmul", FALSE),
       Cell("todo_middle", TRUE), Cell("test_middle", TRUE),
       Cell("todo_histogram", TRUE) >>

NCells == Len(Notebook)

(* the position of the one cell of a kind *)
CellOf(kind) == CHOOSE c \in 1 .. NCells : Notebook[c].kind = kind

(* what a student can leave in the four exercise cells: the shipped
   raise NotImplementedError(), a solution, or for the world coordinate
   a solution that keeps the trailing 1 *)
Students ==
    [second_slice : {"shipped", "solved"},
     odd          : {"shipped", "solved"},
     middle       : {"shipped", "solved", "kept1"},
     histogram    : {"shipped", "solved"}]

AsShipped ==
    [second_slice |-> "shipped", odd |-> "shipped",
     middle |-> "shipped", histogram |-> "shipped"]

(* the two images, reduced to a few voxels *)
AnatData == Volume3(DefaultPattern, <<3, 3, 3>>)

FuncData == Volume4(DefaultPattern, <<2, 2, 2, 4>>)

(* the affine of the anatomical image *)
AnatAffineOnDisk ==
    << <<-1, 0, 0, 120>>, <<0, 1, 0, -120>>, <<0, 0, 1, -110>>, <<0, 0, 0, 1>> >>

(* the voxel in the middle of an array *)
MiddleVoxel(a) == [d \in 1 .. 3 |-> (Shape(a, 3)[d] - 1) \div 2]

(* a runner that stops at every exception, tagged cell or not *)
HaltsOnAnyError(cell, exc) == exc # "none"

(* an exception ends the run unless the cell is tagged raises-exception *)
Halts(cell, exc) == exc # "none" /\ ~cell.raises

InitRun ==
    /\ pc = 1
    /\ outputs = [c \in 1 .. NCells |-> "not run"]
    /\ halted = FALSE
    /\ student \in Students
    /\ data_present \in BOOLEAN
    /\ xyz_middle = Unbound
    /\ graded = {}
    /\ img = Unbound
    /\ f_img = Unbound
    /\ threads = <<>>
    /\ A = Unbound
    /\ ijk = SliceVoxel
    /\ xyz1 = Unbound
    /\ err = "none"
    /\ NoArrays

(* the cell at pc is the next to run *)
AtCell(kind) == ~halted /\ pc <= NCells /\ Notebook[pc].kind = kind

(* the cell at pc ends with exc ("none": it completed) *)
Finish(exc) ==
    /\ outputs' = [outputs EXCEPT ![pc] = exc]
    /\ err' = exc
    /\ halted' = Halts(Notebook[pc], exc)
    /\ pc' = IF Halts(Notebook[pc], exc) THEN pc ELSE pc + 1
    /\ UNCHANGED <<student, data_present, ijk, threads>>

ShowCell ==
    /\ AtCell("show")
    /\ Finish("none")
    /\ UNCHANGED <<img, f_img, A, xyz1, arrayVars, xyz_middle, graded>>

(* img = nib.load(mri_file) *)
LoadImgCell ==
    /\ AtCell("load_img")
    /\ IF data_present
       THEN img' = [affine |-> AnatAffineOnDisk] /\ Finish("none")
       ELSE UNCHANGED img /\ Finish("FileNotFoundError")
    /\ UNCHANGED <<f_img, A, xyz1, arrayVars, xyz_middle, graded>>

(* f_img = nib.load(fmri_file) *)
LoadFImgCell ==
    /\ AtCell("load_f_img")
    /\ f_img' = [affine |-> FuncAffine]
    /\ Finish("none")
    /\ UNCHANGED <<img, A, xyz1, arrayVars, xyz_middle, graded>>

(* img_data = img.get_fdata() *)
ImgDataCell ==
    /\ AtCell("img_data")
    /\ img_data' = AnatData
    /\ Finish("none")
    /\ UNCHANGED <<img, f_img, A, xyz1, f_img_data, second_slice,
                   f_img_data_odd, histogram, xyz_middle, graded>>

(* f_img_data = f_img.get_fdata() *)
FImgDataCell ==
    /\ AtCell("f_img_data")
    /\ f_img_data' = FuncData
    /\ Finish("none")
    /\ UNCHANGED <<img, f_img, A, xyz1, img_data, second_slice,
                   f_img_data_odd, histogram, xyz_middle, graded>>

(* A = img.affine *)
AffineCell ==
    /\ AtCell("affine")
    /\ A' = img.affine
    /\ Finish("none")
    /\ UNCHANGED <<img, f_img, xyz1, arrayVars, xyz_middle, graded>>

(* xyz1 = A @ np.array([69, 119, 109, 1]) *)
MatmulCell ==
    /\ AtCell("matmul")
    /\ LET r == MatMul(A, Homogeneous(ijk)) IN
         IF r.tag = "ok"
         THEN xyz1' = r.value /\ Finish("none")
         ELSE UNCHANGED xyz1 /\ Finish(r.tag)
    /\ UNCHANGED <<img, f_img, A, arrayVars, xyz_middle, graded>>

(* the first exercise cell *)
TodoSecondSliceCell ==
    /\ AtCell("todo_second_slice")
    /\ IF student.second_slice = "shipped"
       THEN UNCHANGED second_slice /\ Finish("NotImplementedError")
       ELSE second_slice' = SecondSliceOf(img_data).value /\ Finish("none")
    /\ UNCHANGED <<img, f_img, A, xyz1, img_data, f_img_data,
                   f_img_data_odd, histogram, xyz_middle, graded>>

(* the grader has run: it returns or raises an AssertionError *)
Graded(name) ==
    /\ graded' = graded \cup {name}
    /\ \E verdict \in {"none", "AssertionError"} : Finish(verdict)

(* test_extract_second_slice(img_data, second_slice): both names are
   looked up before the call *)
TestSecondSliceCell ==
    /\ AtCell("test_second_slice")
    /\ IF img_data = Unbound \/ second_slice = Unbound
       THEN UNCHANGED graded /\ Finish("NameError")
       ELSE Graded("test_extract_second_slice")
    /\ UNCHANGED <<img, f_img, A, xyz1, arrayVars, xyz_middle>>

(* the second exercise cell *)
TodoOddCell ==
    /\ AtCell("todo_odd")
    /\ IF student.odd = "shipped"
       THEN UNCHANGED f_img_data_odd /\ Finish("NotImplementedError")
       ELSE f_img_data_odd' = OddTimepointsOf(f_img_data) /\ Finish("none")
    /\ UNCHANGED <<img, f_img, A, xyz1, img_data, f_img_data,
                   second_slice, histogram, xyz_middle, graded>>

(* a grading cell that calls the grader whatever the guard says *)
TestOddCellUnguarded ==
    /\ AtCell("test_odd")
    /\ Graded("test_extract_voxel_timeseries")
    /\ UNCHANGED <<img, f_img, A, xyz1, arrayVars, xyz_middle>>

(* if 'f_img_data_odd' not in dir(): raise ValueError(...), then
   test_extract_voxel_timeseries(f_img_data, f_img_data_odd) *)
TestOddCell ==
    /\ AtCell("test_odd")
    /\ IF f_img_data_odd = Unbound
       THEN UNCHANGED graded /\ Finish("ValueError")
       ELSE IF f_img_data = Unbound
       THEN UNCHANGED graded /\ Finish("NameError")
       ELSE Graded("test_extract_voxel_timeseries")
    /\ UNCHANGED <<img, f_img, A, xyz1, arrayVars, xyz_middle>>

(* the third exercise cell *)
TodoMiddleCell ==
    /\ AtCell("todo_middle")
    /\ IF student.middle = "shipped"
       THEN UNCHANGED xyz_middle /\ Finish("NotImplementedError")
       ELSE LET r == MatMul(A, Homogeneous(MiddleVoxel(img_data))) IN
              IF r.tag # "ok"
              THEN UNCHANGED xyz_middle /\ Finish(r.tag)
              ELSE /\ xyz_middle' = IF student.middle = "kept1"
                                    THEN r.value ELSE xyz(r.value)
                   /\ Finish("none")
    /\ UNCHANGED <<img, f_img, A, xyz1, arrayVars, graded>>

(* if len(xyz_middle) != 3: raise ValueError("Did you remove the last 1?"),
   then test_affine_middle_coords(A, xyz_middle): the name is looked up
   by the guard itself *)
TestMiddleCell ==
    /\ AtCell("test_middle")
    /\ IF xyz_middle = Unbound
       THEN UNCHANGED graded /\ Finish("NameError")
       ELSE IF Len(xyz_middle) # 3
       THEN UNCHANGED graded /\ Finish("ValueError")
       ELSE IF A = Unbound
       THEN UNCHANGED graded /\ Finish("NameError")
       ELSE Graded("test_affine_middle_coords")
    /\ UNCHANGED <<img, f_img, A, xyz1, arrayVars, xyz_middle>>

(* the histogram exercise cell, the last of the notebook *)
TodoHistogramCell ==
    /\ AtCell("todo_histogram")
    /\ IF student.histogram = "shipped"
       THEN UNCHANGED histogram /\ Finish("NotImplementedError")
       ELSE histogram' = HistogramOf(f_img_data) /\ Finish("none")
    /\ UNCHANGED <<img, f_img, A, xyz1, img_data, f_img_data,
                   second_slice, f_img_data_odd, xyz_middle, graded>>

NextRun ==
    \/ ShowCell
    \/ LoadImgCell
    \/ LoadFImgCell
    \/ ImgDataCell
    \/ FImgDataCell
    \/ AffineCell
    \/ MatmulCell
    \/ TodoSecondSliceCell
    \/ TestSecondSliceCell
    \/ TodoOddCell
    \/ TestOddCell
    \/ TodoMiddleCell
    \/ TestMiddleCell
    \/ TodoHistogramCell

SpecRun == InitRun /\ [][NextRun]_vars

(* ---------------- the claims ---------------- *)

(* the matrix is exactly 4x4 *)
Is4x4(M) == NRows(M) = 4 /\ \A r \in 1 .. 4 : Len(M[r]) = 4

(* component r of M . (i, j, k, 1), written out term by term *)
RowValue(M, r, c) == M[r][1] * c[1] + M[r][2] * c[2] + M[r][3] * c[3] + M[r][4]

(* the matmul cell has run with A bound: it bound xyz1 or it raised *)
Ran == xyz1 # Unbound \/ err \notin {"none", "NameError"}

(* the cell has run on a 4x4 matrix and three coordinate scalars *)
RanOnAffine == Ran /\ A # Unbound /\ Is4x4(A) /\ Len(ijk) = 3

VecSub(u, v) == [n \in 1 .. Len(u) |-> u[n] - v[n]]

Identity4 ==
    << <<1, 0, 0, 0>>, <<0, 1, 0, 0>>, <<0, 0, 1, 0>>, <<0, 0, 0, 1>> >>

AnatAffine ==
    << <<-1, 0, 0, 120>>, <<0, 1, 0, -120>>, <<0, 0, 1, -110>>, <<0, 0, 0, 1>> >>

(* C1 as stated: for a 4x4 matrix and a coordinate triple with w # 0 the
   mapper returns three components, each the matching component of
   A . (i, j, k, 1) divided by w. *)
C1_DividedByW ==
    (RanOnAffine /\ RowValue(A, 4, ijk) # 0) =>
        /\ xyz1 # Unbound
        /\ Len(xyz1) = 3
        /\ \A n \in 1 .. 3 : xyz1[n] * RowValue(A, 4, ijk) = RowValue(A, n, ijk)

(* C1 amended: for a 4x4 matrix and a coordinate triple the product is
   bound to xyz1 with all four components (x', y', z', w) of
   A . (i, j, k, 1), none of them divided by w; a component of the first
   three equals the matching quotient by w exactly when w = 1 or the
   component is 0. *)
C1_ProductUndivided ==
    RanOnAffine =>
        /\ xyz1 # Unbound
        /\ Len(xyz1) = 4
        /\ \A n \in 1 .. 4 : xyz1[n] = RowValue(A, n, ijk)
        /\ \A n \in 1 .. 3 :
             (xyz(xyz1)[n] * RowValue(A, 4, ijk) = RowValue(A, n, ijk))
               <=> (RowValue(A, 4, ijk) = 1 \/ RowValue(A, n, ijk) = 0)

C1_Witness ==
    /\ RanOnAffine
    /\ xyz1 # Unbound
    /\ RowValue(A, 4, ijk) \notin {0, 1}
    /\ RowValue(A, 1, ijk) # 0

(* C3: linearity in the first coordinate.  For a 4x4 matrix and the mapped
   triple (i2, j, k), and every i1: the product at (i1 + i2, j, k) minus the
   product at (i2, j, k) equals the product at (i1, 0, 0) minus the product
   at (0, 0, 0). *)
C3_Linearity ==
    (RanOnAffine /\ xyz1 # Unbound) =>
        \A i1 \in Coord :
            VecSub(MatMul(A, Homogeneous(<<i1 + ijk[1], ijk[2], ijk[3]>>)).value, xyz1)
              = VecSub(MatMul(A, Homogeneous(<<i1, 0, 0>>)).value,
                       MatMul(A, Homogeneous(<<0, 0, 0>>)).value)

C3_Witness ==
    /\ RanOnAffine
    /\ xyz1 # Unbound
    /\ A[4][1] # 0
    /\ A[1][1] # 0
    /\ ijk[1] # 0 /\ ijk[2] # 0 /\ ijk[3] # 0

(* C4: with the identity matrix the world coordinate of the product is the
   voxel coordinate itself. *)
C4_IdentityMapsToItself ==
    (RanOnAffine /\ A = Identity4) =>
        /\ xyz1 # Unbound
        /\ xyz(xyz1) = ijk

C4_Witness ==
    /\ RanOnAffine
    /\ A = Identity4
    /\ xyz1 # Unbound
    /\ ijk[1] # 0 /\ ijk[2] # 0 /\ ijk[3] # 0

(* C5: the matrix [[-1,0,0,120],[0,1,0,-120],[0,0,1,-110],[0,0,0,1]] maps
   the voxel (69, 119, 109) to the world coordinate (51, -1, -1). *)
C5_SliceVoxelScenario ==
    (RanOnAffine /\ A = AnatAffine /\ ijk = <<69, 119, 109>>) =>
        /\ xyz1 # Unbound
        /\ xyz(xyz1) = <<51, -1, -1>>

C5_Witness ==
    /\ RanOnAffine
    /\ A = AnatAffine
    /\ ijk = <<69, 119, 109>>
    /\ xyz1 = <<51, -1, -1, 1>>

(* C6 as stated: whenever the matrix is not exactly 4x4 or the number of
   coordinate scalars is not three, the mapper fails with a shape error
   and returns no coordinate. *)
C6_FailsUnlessAffineAndTriple ==
    (Ran /\ (~Is4x4(A) \/ Len(ijk) # 3)) =>
        /\ err = "ValueError"
        /\ xyz1 = Unbound

(* C6 amended: the product fails with numpy's ValueError, binding nothing,
   exactly when the number of columns of the matrix differs from the number
   of coordinate scalars plus one; otherwise it returns one component per
   row of the matrix, whatever the shape. *)
C6_FailsOnCoreDimension ==
    Ran =>
        /\ (err = "ValueError" /\ xyz1 = Unbound) <=> (NCols(A) # Len(ijk) + 1)
        /\ (NCols(A) = Len(ijk) + 1) => (err = "none" /\ Len(xyz1) = NRows(A))

C6_Witness ==
    /\ Ran
    /\ ~Is4x4(A)
    /\ NCols(A) = 4
    /\ Len(ijk) = 3
    /\ xyz1 # Unbound

(* C8 as stated: when the homogeneous term w of A . (i, j, k, 1) is 0 the
   mapper signals it and returns no ordinary coordinate. *)
C8_ZeroTermSignalled ==
    (RanOnAffine /\ RowValue(A, 4, ijk) = 0) =>
        /\ err # "none"
        /\ xyz1 = Unbound

(* C8 amended: when the homogeneous term w is 0 the product raises nothing
   and binds the ordinary vector (x', y', z', 0); w = 0 shows only as the
   fourth component. *)
C8_ZeroTermReturned ==
    (RanOnAffine /\ RowValue(A, 4, ijk) = 0) =>
        /\ err = "none"
        /\ xyz1 = << RowValue(A, 1, ijk), RowValue(A, 2, ijk),
                     RowValue(A, 3, ijk), 0 >>

C8_Witness ==
    /\ RanOnAffine
    /\ RowValue(A, 4, ijk) = 0
    /\ A[4][1] # 0
    /\ xyz1 # Unbound
    /\ xyz1[1] # 0

(* C9: no step of the kernel changes the image, its affine, the array A
   refers to once it is bound, or the coordinate scalars; A is the image's
   affine whenever it is bound. *)
C9_NeverMutated ==
    [][ /\ img' = img
        /\ ijk' = ijk
        /\ (A # Unbound => A' = A)
        /\ (A' # Unbound => A' = img'.affine) ]_vars

C9_Witness ==
    /\ xyz1 # Unbound
    /\ A = img.affine
    /\ Is4x4(A)
    /\ xyz1[1] # A[1][1]

(* C15: for a 4x4 affine matrix, one whose last row is (0, 0, 0, 1), and the
   voxel coordinates (i, j, k) followed by a single 1, the product is the
   vector (x, y, z, 1): the world coordinates and then 1. *)
C15_ProductEndsWithOne ==
    (RanOnAffine /\ A[4] = <<0, 0, 0, 1>>) =>
        /\ xyz1 # Unbound
        /\ Len(xyz1) = 4
        /\ xyz1[4] = 1
        /\ xyz(xyz1) = << RowValue(A, 1, ijk), RowValue(A, 2, ijk), RowValue(A, 3, ijk) >>

C15_Witness ==
    /\ RanOnAffine
    /\ A[4] = <<0, 0, 0, 1>>
    /\ A # Identity4
    /\ xyz1 # Unbound
    /\ xyz1[4] = 1
    /\ xyz(xyz1) # ijk

(* C16: for every 4x4 matrix with w # 0, whatever its last row and whether
   or not it is invertible, and for every coordinate triple, negative
   indices included, the product raises nothing and binds a coordinate. *)
C16_NoFurtherConstraint ==
    (RanOnAffine /\ RowValue(A, 4, ijk) # 0) =>
        /\ err = "none"
        /\ xyz1 # Unbound
        /\ Len(xyz1) = NRows(A)

C16_Witness ==
    /\ RanOnAffine
    /\ RowValue(A, 4, ijk) # 0
    /\ A[4] # <<0, 0, 0, 1>>
    /\ A[1][1] = 0
    /\ \E n \in 1 .. 3 : ijk[n] < 0
    /\ err = "none"
    /\ xyz1 # Unbound

(* C11: under every interleaving of the invocations, on the same or on
   different affines, every component an invocation has computed is the one
   the product gives on its own, a finished invocation holds the whole
   product, and a step changes nothing but the stepping invocation's own
   result: neither the affines nor another invocation's state. *)
C11_InvocationsIndependent ==
    /\ [](\A t \in DOMAIN threads :
            LET alone == MatMul(AffineOf(threads[t].image), Homogeneous(threads[t].v))
            IN  /\ threads[t].value = SubSeq(alone.value, 1, threads[t].row)
                /\ threads[t].state = "done" => threads[t].value = alone.value)
    /\ [][ /\ img' = img
           /\ f_img' = f_img
           /\ \A t \in DOMAIN threads :
                threads'[t] # threads[t] =>
                    \A u \in DOMAIN threads \ {t} : threads'[u] = threads[u] ]_vars

C11_Witness ==
    /\ threads # <<>>
    /\ threads[1].state = "done"
    /\ threads[2].state = "running"
    /\ threads[2].row = 2
    /\ threads[1].image = threads[2].image
    /\ threads[1].v # threads[2].v
    /\ threads[1].value # threads[2].value

(* the sum of the first n entries of x, entry by entry *)
RECURSIVE SumTo(_, _)
SumTo(x, n) == IF n = 0 THEN 0 ELSE x[n] + SumTo(x, n - 1)

(* the voxels of a 4-D array, as positions of its first three axes *)
VoxelsOf(a) ==
    { <<i, j, k>> : i \in 1 .. Len(a), j \in 1 .. Len(a[1]), k \in 1 .. Len(a[1][1]) }

(* C13: the odd timepoints of a 4-D array of shape (X, Y, Z, T) form an
   array of shape (X, Y, Z, floor(T / 2)) whose n-th time entry is the
   original entry at time index 2n + 1, the spatial axes unchanged; for the
   shape (80, 80, 44, 50) the result has the shape (80, 80, 44, 25). *)
C13_OddTimepoints ==
    f_img_data_odd # Unbound =>
        LET sh == Shape(f_img_data, 4) IN
        /\ Shape(f_img_data_odd, 4) = <<sh[1], sh[2], sh[3], sh[4] \div 2>>
        /\ \A p \in VoxelsOf(f_img_data) : \A n \in 0 .. (sh[4] \div 2) - 1 :
             f_img_data_odd[p[1]][p[2]][p[3]][n + 1]
               = f_img_data[p[1]][p[2]][p[3]][(2 * n + 1) + 1]
        /\ IndexShape(<<80, 80, 44, 50>>, <<All, All, All, From(1, 2)>>)
             = <<80, 80, 44, 25>>

C13_Witness ==
    /\ f_img_data_odd # Unbound
    /\ Shape(f_img_data, 4)[4] = 3
    /\ Shape(f_img_data, 4)[1] = 2
    /\ Shape(f_img_data_odd, 4)[4] = 1
    /\ f_img_data[2][1][1][2] # f_img_data[2][1][1][1]
    /\ f_img_data[2][1][1][2] # f_img_data[2][1][1][3]
    /\ f_img_data[2][1][1][2] # f_img_data[1][1][1][2]

(* C14: the second entry of the last axis of a 3-D array of shape (X, Y, Z)
   is a 2-D array of shape (X, Y) whose element (i, j) is the element
   (i, j, 1) of the array; for the shape (240, 240, 220) it has the shape
   (240, 240). *)
C14_SecondSlice ==
    second_slice # Unbound =>
        LET sh == Shape(img_data, 3) IN
        /\ Shape(second_slice, 2) = <<sh[1], sh[2]>>
        /\ \A i \in 1 .. sh[1] : \A j \in 1 .. sh[2] :
             second_slice[i][j] = img_data[i][j][1 + 1]
        /\ IndexShape(<<240, 240, 220>>, <<All, All, At(1)>>) = <<240, 240>>

C14_Witness ==
    /\ second_slice # Unbound
    /\ Shape(img_data, 3) = <<2, 2, 2>>
    /\ img_data[2][2][2] # img_data[2][2][1]
    /\ img_data[2][2][2] # img_data[1][2][2]
    /\ img_data[2][2][2] # img_data[2][1][2]

(* C18: the average across time of a 4-D array of shape (X, Y, Z, T) has the
   shape (X, Y, Z) and holds every voxel's average; after the zero averages
   are removed no remaining value is zero and every non-zero average is
   kept, as often as it occurs; the histogram has exactly 50 bins and its
   counts sum to the number of retained voxels. *)
C18_HistogramOfAverages ==
    histogram # Unbound =>
        LET sh == Shape(f_img_data, 4)
            avg(p) == SumTo(f_img_data[p[1]][p[2]][p[3]], sh[4])
            kept == histogram.nonzero
        IN
        /\ Shape(histogram.mean, 3) = <<sh[1], sh[2], sh[3]>>
        /\ histogram.den = sh[4]
        /\ \A p \in VoxelsOf(f_img_data) : histogram.mean[p[1]][p[2]][p[3]] = avg(p)
        /\ \A n \in 1 .. Len(kept) : kept[n] # 0
        /\ \A p \in VoxelsOf(f_img_data) :
             avg(p) # 0 =>
               Cardinality({ n \in 1 .. Len(kept) : kept[n] = avg(p) })
                 = Cardinality({ q \in VoxelsOf(f_img_data) : avg(q) = avg(p) })
        /\ Len(kept) = Cardinality({ p \in VoxelsOf(f_img_data) : avg(p) # 0 })
        /\ Len(histogram.counts) = 50
        /\ SumTo(histogram.counts, 50) = Len(kept)

C18_Witness ==
    /\ histogram # Unbound
    /\ Shape(histogram.mean, 3) = <<2, 2, 2>>
    /\ histogram.den = 3
    /\ Len(histogram.nonzero) \in 2 .. 7
    /\ \E n \in 1 .. Len(histogram.nonzero) : histogram.nonzero[n] # histogram.nonzero[1]
    /\ \E p \in VoxelsOf(f_img_data) :
          /\ histogram.mean[p[1]][p[2]][p[3]] = 0
          /\ f_img_data[p[1]][p[2]][p[3]][1] # 0

(* the grading cell of an exercise has run *)
HasRun(kind) == outputs[CellOf(kind)] # "not run"

(* C17 as stated: the grading cells call their grader only after their
   guard passes: test_affine_middle_coords only when xyz_middle has exactly
   3 elements, test_extract_voxel_timeseries only when f_img_data_odd is
   bound; otherwise the cell raises ValueError and the grader is never
   invoked. *)
C17_ValueErrorWhenGuardFails ==
    /\ "test_affine_middle_coords" \in graded => Len(xyz_middle) = 3
    /\ "test_extract_voxel_timeseries" \in graded => f_img_data_odd # Unbound
    /\ (HasRun("test_middle") /\ Len(xyz_middle) # 3) =>
           /\ outputs[CellOf("test_middle")] = "ValueError"
           /\ "test_affine_middle_coords" \notin graded
    /\ (HasRun("test_odd") /\ f_img_data_odd = Unbound) =>
           /\ outputs[CellOf("test_odd")] = "ValueError"
           /\ "test_extract_voxel_timeseries" \notin graded

(* C17, amended: the graders are called only after their guard passes, and
   a failing guard leaves the grader uncalled; the cell then raises
   ValueError, except that the xyz_middle cell raises NameError when
   xyz_middle is not bound at all, because its guard reads the name. *)
C17_GraderOnlyAfterGuard ==
    /\ "test_affine_middle_coords" \in graded => Len(xyz_middle) = 3
    /\ "test_extract_voxel_timeseries" \in graded => f_img_data_odd # Unbound
    /\ (HasRun("test_middle") /\ Len(xyz_middle) # 3) =>
           /\ outputs[CellOf("test_middle")] =
                  IF xyz_middle = Unbound THEN "NameError" ELSE "ValueError"
           /\ "test_affine_middle_coords" \notin graded
    /\ (HasRun("test_odd") /\ f_img_data_odd = Unbound) =>
           /\ outputs[CellOf("test_odd")] = "ValueError"
           /\ "test_extract_voxel_timeseries" \notin graded

(* one grader was called, and the other cell's guard stopped a coordinate
   that still carries its 1 *)
C17_Witness ==
    /\ Len(xyz_middle) = 4
    /\ outputs[CellOf("test_middle")] = "ValueError"
    /\ "test_extract_voxel_timeseries" \in graded
    /\ "test_affine_middle_coords" \notin graded

(* the exercise cells and the grading cell of each graded name *)
Exercises ==
    { <<"todo_second_slice", "test_second_slice">>,
      <<"todo_odd", "test_odd">>,
      <<"todo_middle", "test_middle">> }

(* C19 as stated: run in order as shipped, execution stops at the first
   exercise cell with NotImplementedError: no later cell runs, the graded
   variables are never bound, no grader is ever called; a grading cell is
   reached only after its exercise cell completed without raising. *)
C19_StopsAtFirstExercise ==
    /\ student = AsShipped =>
           /\ \A c \in 1 .. NCells :
                  c > CellOf("todo_second_slice") => outputs[c] = "not run"
           /\ second_slice = Unbound
           /\ f_img_data_odd = Unbound
           /\ xyz_middle = Unbound
           /\ graded = {}
    /\ \A e \in Exercises : HasRun(e[2]) => outputs[CellOf(e[1])] = "none"

(* C19, amended: run in order as shipped, every exercise cell raises
   NotImplementedError, but the cells are tagged raises-exception and the
   run goes on: each grading cell is reached after its exercise cell
   raised and raises itself (NameError, ValueError, NameError) before its
   call, so the graded variables are never bound and no grader is ever
   called. *)
C19_RunsOnPastExercises ==
    student = AsShipped =>
        /\ second_slice = Unbound
        /\ f_img_data_odd = Unbound
        /\ xyz_middle = Unbound
        /\ graded = {}
        /\ data_present =>
               /\ ~halted
               /\ \A c \in 1 .. NCells : (c < pc) = (outputs[c] # "not run")
        /\ \A e \in Exercises :
               HasRun(e[2]) => outputs[CellOf(e[1])] = "NotImplementedError"
        /\ HasRun("todo_histogram") =>
               outputs[CellOf("todo_histogram")] = "NotImplementedError"
        /\ HasRun("test_second_slice") =>
               outputs[CellOf("test_second_slice")] = "NameError"
        /\ HasRun("test_odd") => outputs[CellOf("test_odd")] = "ValueError"
        /\ HasRun("test_middle") => outputs[CellOf("test_middle")] = "NameError"

(* the shipped notebook has run to its last cell *)
C19_Witness ==
    /\ student = AsShipped
    /\ pc = NCells + 1
    /\ \A e \in Exercises : HasRun(e[2])
    /\ outputs[CellOf("todo_second_slice")] = "NotImplementedError"

====
